---- MODULE Spec2Model ----
(***************************************************************************)
(* A model of two translation units of libdivecomputer:                    *)
(*                                                                         *)
(*   src/src/uwatec_smart.c           the Uwatec Smart device backend:     *)
(*                                    transfer, handshake, open,           *)
(*                                    set_fingerprint, version, dump and   *)
(*                                    the dive splitter (extract_dives)    *)
(*   src/src/suunto_solution_parser.c the Suunto Solution sample decoder   *)
(*                                                                         *)
(* The programs modelled, each with a specification of its own:            *)
(*   SpecExtract  one run of uwatec_smart_extract_dives over a buffer      *)
(*   SpecParser   one run of suunto_solution_parser_samples_foreach        *)
(*   SpecFields   set_data and get_field calls on one suunto parser        *)
(*   SpecBoth     samples_foreach and set_data / get_field on one record   *)
(*   Spec         a device session: open (with its handshake),             *)
(*                set_fingerprint and dump                                  *)
(*                                                                         *)
(* Number representation.  A C "unsigned int" is 32 bits wide; the model   *)
(* checker's integers are 32-bit signed, so a 32-bit unsigned value is     *)
(* kept as two 16-bit limbs [hi, lo] and the arithmetic of the C code      *)
(* (wrapping addition, unsigned comparison, int -> unsigned conversion)    *)
(* is written out on limbs.  A C "int" is a model integer as it stands.    *)
(* Buffer offsets are C offsets (0-based); a buffer is a sequence of       *)
(* bytes 0..255 whose element i+1 is the byte at offset i.                 *)
(***************************************************************************)
EXTENDS Integers, Sequences, FiniteSets

VARIABLES
    \* ---- uwatec_smart_extract_dives -------------------------------------
    xdata,      \* the buffer handed to extract_dives (data[0..size))
    xbeyond,    \* the memory that happens to follow the buffer (7 bytes)
    xdev,       \* the device argument: "smart" (or none), or "other" (another backend's)
    xcb,        \* TRUE iff a callback was given (callback != NULL)
    xpc,        \* "entry", "loop" or "done"
    xprevious,  \* local "previous"
    xcurrent,   \* local "current"
    xstatus,    \* the status returned ("none" until the call returns)
    xcalls,     \* the consumer calls made so far, in order
    xoob,       \* TRUE iff a byte at an offset >= size was read or handed out
    \* ---- suunto_solution_parser_samples_foreach --------------------------
    pdata,      \* abstract->data (the record; abstract->size is its length)
    pkind,      \* the parser argument: "suunto", or "other" (another backend's)
    pcb,        \* TRUE iff a sample callback was given
    ppc,        \* "entry", "loop" or "done"
    poffset,    \* local "offset"
    ptime,      \* local "time"  (32-bit unsigned)
    pdepth,     \* local "depth" (32-bit unsigned)
    psamples,   \* the samples delivered so far, in order
    pstopAt,    \* the consumer signals "stop" from its pstopAt-th sample on (0: never)
    pstatus,    \* the status returned ("none" until the call returns)
    poob,       \* TRUE iff a byte at an offset >= size was read
    \* ---- a uwatec_smart device session -----------------------------------
    dpc,        \* where the session is: see the actions
    dsocket,    \* TRUE iff the irda socket is open
    timestamp,  \* device->timestamp (the fingerprint, 32-bit unsigned)
    devtime,    \* device->devtime (32-bit unsigned)
    systime,    \* device->systime: "unset" ((dc_ticks_t) -1) or "now"
    wire,       \* the command/answer traffic of the call in progress, in order
    hsStatus,   \* what uwatec_smart_handshake returned ("none" before)
    dstatus,    \* what the last API call returned ("none" before it returns)
    dcalls,     \* the API calls made on the open device so far
    dbuffer,    \* the size of the caller's dc_buffer_t (32-bit unsigned)
    dlength,    \* dump's local "length"
    dtotal,     \* dump's local "total"
    dnbytes,    \* dump's local "nbytes"
    dprogress,  \* dump's local "progress": [current, maximum]
    devents,    \* the events dump has emitted, in order
    dreads,     \* the payload reads dump has issued: [offset, size, n, available]
    dfp,        \* <<data>> for the data of the last set_fingerprint call (<<>> before one)
    \* ---- a suunto_solution parser: set_data and get_field ------------------
    fdive,      \* the dive record the application is about to parse
    fdata,      \* abstract->data (abstract->size is its length)
    fcached,    \* parser->cached
    fdivetime,  \* parser->divetime (32-bit unsigned)
    fmaxdepth,  \* parser->maxdepth (32-bit unsigned, feet)
    fcall,      \* the last call made: "create", "set_data" or "get_field"
    ftype,      \* the field type of the last get_field ("none" before one)
    fvalue,     \* <<v>> for what the last get_field stored in *value (<<>>: nothing)
    fstatus     \* what the last call returned

xvars == <<xdata, xbeyond, xdev, xcb, xpc, xprevious, xcurrent, xstatus, xcalls, xoob>>
pvars == <<pdata, pkind, pcb, ppc, poffset, ptime, pdepth, psamples, pstopAt, pstatus, poob>>
dvars == <<dpc, dsocket, timestamp, devtime, systime, wire, hsStatus, dstatus, dcalls,
           dbuffer, dlength, dtotal, dnbytes, dprogress, devents, dreads, dfp>>
fvars == <<fdive, fdata, fcached, fdivetime, fmaxdepth, fcall, ftype, fvalue, fstatus>>
vars == <<xvars, pvars, dvars, fvars>>

----------------------------------------------------------------------------
(* Bounds of the model.                                                    *)

\* the most record chunks a generated dump buffer is put together from
MaxChunks == 2
\* the most filler bytes in front of the first chunk of a dump buffer
MaxPre == 1

----------------------------------------------------------------------------
(* 32-bit unsigned arithmetic on 16-bit limbs.                             *)

Limb == 256 * 256

\* the 32-bit unsigned value of a natural number n < 2^31
U32(n) == [hi |-> n \div Limb, lo |-> n % Limb]

\* (unsigned int) n for a C int n: two's complement for a negative n
IntToU32(n) ==
    IF n >= 0 THEN U32(n)
    ELSE [hi |-> (Limb - 1) - ((-(n + 1)) \div Limb),
          lo |-> (Limb - 1) - ((-(n + 1)) % Limb)]

\* a + b modulo 2^32
Add32(a, b) ==
    LET s == a.lo + b.lo
    IN  [hi |-> (a.hi + b.hi + s \div Limb) % Limb, lo |-> s % Limb]

\* a - b modulo 2^32
Sub32(a, b) ==
    LET borrow == IF a.lo < b.lo THEN 1 ELSE 0
    IN  [hi |-> (a.hi + Limb - b.hi - borrow) % Limb,
         lo |-> (a.lo + Limb - b.lo) % Limb]

\* a > b, a < b as unsigned 32-bit values
Gt32(a, b) == a.hi > b.hi \/ (a.hi = b.hi /\ a.lo > b.lo)
Lt32(a, b) == Gt32(b, a)

\* TRUE iff the unsigned value u is a natural number below 2^31; Nat32 is it
Small32(u) == u.hi < Limb \div 2
Nat32(u) == u.hi * Limb + u.lo

\* array_uint32_le: the little-endian value of four bytes
array_uint32_le(b0, b1, b2, b3) == [hi |-> b2 + 256 * b3, lo |-> b0 + 256 * b1]

\* the four bytes of a 32-bit value, least significant first
LE32(u) == <<u.lo % 256, u.lo \div 256, u.hi % 256, u.hi \div 256>>

\* (signed char) v for a byte v, as a C int
SignedChar(v) == IF v < 128 THEN v ELSE v - 256

----------------------------------------------------------------------------
(* Status codes (dc_status_t).                                             *)

DC_STATUS_SUCCESS == "Success"
DC_STATUS_INVALIDARGS == "InvalidArgs"
DC_STATUS_NOMEMORY == "NoMemory"
DC_STATUS_IO == "Io"
DC_STATUS_TIMEOUT == "Timeout"
DC_STATUS_PROTOCOL == "Protocol"
DC_STATUS_DATAFORMAT == "DataFormat"
DC_STATUS_UNSUPPORTED == "Unsupported"

----------------------------------------------------------------------------
(* uwatec_smart_extract_dives.                                             *)

\* const unsigned char header[4] = {0xa5, 0xa5, 0x5a, 0x5a}
header == <<165, 165, 90, 90>>

Zeros(n) == [i \in 1..n |-> 0]

\* the length fields the generated buffers carry: 0, 12, 13 and the largest
\* 32-bit value
LenFields == {U32(0), U32(12), U32(13), [hi |-> 65535, lo |-> 65535]}

\* one chunk of a dump: a marker, a length field and n bytes after them,
\* or a bare marker cut short after its first 4 or 5 bytes, or a filler byte
Chunks ==
    {header \o LE32(l) \o Zeros(n) : l \in LenFields, n \in {0, 4, 5}}
        \cup {header, header \o <<5>>, <<0>>}

RECURSIVE ChunkSeqs(_)
ChunkSeqs(n) ==
    IF n = 0 THEN {<<>>}
    ELSE LET shorter == ChunkSeqs(n - 1)
         IN  shorter \cup {s \o c : s \in shorter, c \in Chunks}

\* the buffers extract_dives is run on
Buffers == {Zeros(pre) \o s : pre \in 0..MaxPre, s \in ChunkSeqs(MaxChunks)}

\* what may lie in the 7 bytes of memory behind the buffer
Beyonds == {Zeros(7), <<255, 255, 255, 255, 255, 255, 255>>}

\* the byte the build reads at offset i of a buffer: data[i] inside the
\* buffer, whatever lies behind it in memory otherwise
ByteAt(data, beyond, i) ==
    IF i < Len(data) THEN data[i + 1] ELSE beyond[i - Len(data) + 1]

\* memcmp (data + current, header, sizeof (header)) == 0
MarkerAt(data, beyond, p) ==
    \A k \in 0..3 : ByteAt(data, beyond, p + k) = header[k + 1]

\* array_uint32_le (data + current + 4)
LenAt(data, beyond, p) ==
    array_uint32_le(ByteAt(data, beyond, p + 4), ByteAt(data, beyond, p + 5),
                    ByteAt(data, beyond, p + 6), ByteAt(data, beyond, p + 7))

\* the 4 bytes at data + current + 8 that the callback is given as fingerprint
FingerprintAt(data, beyond, p) == [k \in 1..4 |-> ByteAt(data, beyond, p + 7 + k)]

\* current + len > previous, in 32-bit unsigned arithmetic
Overflows(current, len, previous) ==
    Gt32(Add32(U32(current), len), U32(previous))

\* current = (current >= 4 ? current - 4 : 0)
StepBack(current) == IF current >= 4 THEN current - 4 ELSE 0

InitExtractVars ==
    /\ xdata \in Buffers
    /\ xbeyond \in Beyonds
    /\ xdev \in {"smart", "other"}
    /\ xcb \in BOOLEAN
    /\ xpc = "entry"
    /\ xprevious = 0
    /\ xcurrent = 0
    /\ xstatus = "none"
    /\ xcalls = <<>>
    /\ xoob = FALSE

IdleExtractVars ==
    /\ xdata = <<>>
    /\ xbeyond = Zeros(7)
    /\ xdev = "null"
    /\ xcb = FALSE
    /\ xpc = "idle"
    /\ xprevious = 0
    /\ xcurrent = 0
    /\ xstatus = "none"
    /\ xcalls = <<>>
    /\ xoob = FALSE

\* the device check, and the locals' initial values
XEnter ==
    /\ xpc = "entry"
    /\ IF xdev = "other"
       THEN /\ xpc' = "done"
            /\ xstatus' = DC_STATUS_INVALIDARGS
            /\ UNCHANGED <<xprevious, xcurrent>>
       ELSE /\ xpc' = "loop"
            /\ xprevious' = Len(xdata)
            /\ xcurrent' = (IF Len(xdata) >= 4 THEN Len(xdata) - 4 ELSE 0)
            /\ UNCHANGED xstatus
    /\ UNCHANGED <<xdata, xbeyond, xdev, xcb, xcalls, xoob>>
    /\ UNCHANGED <<pvars, dvars, fvars>>

\* one iteration that finds no marker at current - 1
XMiss ==
    /\ xpc = "loop"
    /\ xcurrent > 0
    /\ ~MarkerAt(xdata, xbeyond, xcurrent - 1)
    /\ xcurrent' = xcurrent - 1
    /\ UNCHANGED <<xdata, xbeyond, xdev, xcb, xpc, xprevious, xstatus, xcalls, xoob>>
    /\ UNCHANGED <<pvars, dvars, fvars>>

\* one iteration that finds a marker whose length fails the overflow check
XReject ==
    /\ xpc = "loop"
    /\ xcurrent > 0
    /\ LET p == xcurrent - 1
           len == LenAt(xdata, xbeyond, p)
       IN  /\ MarkerAt(xdata, xbeyond, p)
           /\ Overflows(p, len, xprevious)
           /\ xcurrent' = p
           /\ xoob' = (xoob \/ p + 8 > Len(xdata))
    /\ xpc' = "done"
    /\ xstatus' = DC_STATUS_DATAFORMAT
    /\ UNCHANGED <<xdata, xbeyond, xdev, xcb, xprevious, xcalls>>
    /\ UNCHANGED <<pvars, dvars, fvars>>

\* callback (data + current, len, data + current + 8, 4, userdata) for a
\* marker at p, and what the callback returned
CallRecord(p, answer) ==
    [start |-> p,
     len |-> LenAt(xdata, xbeyond, p),
     fingerprint |-> FingerprintAt(xdata, xbeyond, p),
     answer |-> answer]

\* one iteration that finds a marker, calls the consumer and is told to go on
XDeliverContinue ==
    /\ xpc = "loop"
    /\ xcurrent > 0
    /\ xcb
    /\ LET p == xcurrent - 1
       IN  /\ MarkerAt(xdata, xbeyond, p)
           /\ ~Overflows(p, LenAt(xdata, xbeyond, p), xprevious)
           /\ xcalls' = Append(xcalls, CallRecord(p, "continue"))
           /\ xoob' = (xoob \/ p + 12 > Len(xdata))
           /\ xprevious' = p
           /\ xcurrent' = StepBack(p)
    /\ UNCHANGED <<xdata, xbeyond, xdev, xcb, xpc, xstatus>>
    /\ UNCHANGED <<pvars, dvars, fvars>>

\* XDeliverStop as it would be if the callback's result were dropped: the
\* scan goes on behind a "stop"
XDeliverStop_KeepsScanning ==
    /\ xpc = "loop"
    /\ xcurrent > 0
    /\ xcb
    /\ LET p == xcurrent - 1
       IN  /\ MarkerAt(xdata, xbeyond, p)
           /\ ~Overflows(p, LenAt(xdata, xbeyond, p), xprevious)
           /\ xcalls' = Append(xcalls, CallRecord(p, "stop"))
           /\ xoob' = (xoob \/ p + 12 > Len(xdata))
           /\ xprevious' = p
           /\ xcurrent' = StepBack(p)
    /\ UNCHANGED <<xdata, xbeyond, xdev, xcb, xpc, xstatus>>
    /\ UNCHANGED <<pvars, dvars, fvars>>

\* one iteration that finds a marker, calls the consumer and is told to stop
XDeliverStop ==
    /\ xpc = "loop"
    /\ xcurrent > 0
    /\ xcb
    /\ LET p == xcurrent - 1
       IN  /\ MarkerAt(xdata, xbeyond, p)
           /\ ~Overflows(p, LenAt(xdata, xbeyond, p), xprevious)
           /\ xcalls' = Append(xcalls, CallRecord(p, "stop"))
           /\ xoob' = (xoob \/ p + 12 > Len(xdata))
           /\ xcurrent' = p
    /\ xpc' = "done"
    /\ xstatus' = DC_STATUS_SUCCESS
    /\ UNCHANGED <<xdata, xbeyond, xdev, xcb, xprevious>>
    /\ UNCHANGED <<pvars, dvars, fvars>>

\* one iteration that finds a marker when no callback was given
XNoCallback ==
    /\ xpc = "loop"
    /\ xcurrent > 0
    /\ ~xcb
    /\ LET p == xcurrent - 1
       IN  /\ MarkerAt(xdata, xbeyond, p)
           /\ ~Overflows(p, LenAt(xdata, xbeyond, p), xprevious)
           /\ xoob' = (xoob \/ p + 8 > Len(xdata))
           /\ xprevious' = p
           /\ xcurrent' = StepBack(p)
    /\ UNCHANGED <<xdata, xbeyond, xdev, xcb, xpc, xstatus, xcalls>>
    /\ UNCHANGED <<pvars, dvars, fvars>>

\* the loop's exit: current == 0
XExit ==
    /\ xpc = "loop"
    /\ xcurrent = 0
    /\ xpc' = "done"
    /\ xstatus' = DC_STATUS_SUCCESS
    /\ UNCHANGED <<xdata, xbeyond, xdev, xcb, xprevious, xcurrent, xcalls, xoob>>
    /\ UNCHANGED <<pvars, dvars, fvars>>

NextExtract ==
    \/ XEnter
    \/ XMiss
    \/ XReject
    \/ XDeliverContinue
    \/ XDeliverStop
    \/ XNoCallback
    \/ XExit

----------------------------------------------------------------------------
(* suunto_solution_parser_samples_foreach.                                 *)

\* the most coded bytes (after the 3-byte header) of a generated record
MaxCoded == 4
\* the consumer's policies: it signals "stop" from sample 1..MaxStop on, or never
MaxStop == 2

\* the coded bytes the generated records are made of: two small descents,
\* both overflow codes, an event code and the terminal
CodedBytes == {2, 3, 125, 126, 128, 131}

RECURSIVE SeqsUpTo(_, _)
SeqsUpTo(S, n) ==
    IF n = 0 THEN {<<>>}
    ELSE LET shorter == SeqsUpTo(S, n - 1)
         IN  shorter \cup {Append(s, b) : s \in shorter, b \in S}

\* the records the parser is run on: cut-short headers, and a 3-byte header
\* followed by coded bytes
Records ==
    {Zeros(n) : n \in 0..2} \cup {Zeros(3) \o c : c \in SeqsUpTo(CodedBytes, MaxCoded)}

\* value < 0x7e || value > 0x82
IsDepthByte(value) == value < 126 \/ value > 130

\* value == 0x7D || value == 0x83
IsOverflowByte(value) == value = 125 \/ value = 131

\* depth += (signed char) value
AddDelta(depth, value) == Add32(depth, IntToU32(SignedChar(value)))

\* OverflowDepth as it would be if the overflow code itself stood for 124
\* (0x7D) or -124 (0x83), one less than its value as a signed byte
OverflowDepth_CodeIs124(depth, value, k) ==
    AddDelta(Add32(depth, IntToU32(IF value = 125 THEN 124 ELSE -124)), k)

\* depth after an overflow pair: depth += (signed char) value, then
\* depth += (signed char) data[offset++]
OverflowDepth(depth, value, k) == AddDelta(AddDelta(depth, value), k)

\* time += 3 * 60
NextTime(time) == Add32(time, U32(3 * 60))

\* the event type of an event byte (the default branch leaves it 0)
EventType(value) ==
    CASE value = 126 -> "SAMPLE_EVENT_DECOSTOP"
      [] value = 127 -> "SAMPLE_EVENT_CEILING"
      [] value = 129 -> "SAMPLE_EVENT_ASCENT"
      [] OTHER -> "SAMPLE_EVENT_NONE"

\* the samples handed to the callback.  A depth sample carries the 32-bit
\* depth accumulator (feet); the callback sees it times FEET, as a double
TimeSample(time) == [type |-> "DC_SAMPLE_TIME", value |-> time, event |-> ""]
DepthSample(depth) == [type |-> "DC_SAMPLE_DEPTH", value |-> depth, event |-> ""]
EventSample(value) == [type |-> "DC_SAMPLE_EVENT", value |-> U32(0), event |-> EventType(value)]

\* what the consumer signalled on the i-th sample it was given
Answer(i) == IF pstopAt # 0 /\ i >= pstopAt THEN "stop" ELSE "continue"

\* Deliver as it would be if a "stop" from the consumer ended the delivery
Deliver_HonoursStop(samples, new) ==
    IF pcb /\ (Len(samples) = 0 \/ Answer(Len(samples)) # "stop")
    THEN samples \o new
    ELSE samples

\* if (callback) callback (...): the callback's result is not used
Deliver(samples, new) == IF pcb THEN samples \o new ELSE samples

\* the calls made: on another backend's parser, without a callback, and
\* with a callback under each of the consumer's policies
ParserCalls ==
    {<<"other", TRUE, 0>>, <<"suunto", FALSE, 0>>}
        \cup {<<"suunto", TRUE, k>> : k \in 0..MaxStop}

InitParserVars ==
    /\ pdata \in Records
    /\ \E c \in ParserCalls : pkind = c[1] /\ pcb = c[2] /\ pstopAt = c[3]
    /\ ppc = "entry"
    /\ poffset = 0
    /\ ptime = U32(0)
    /\ pdepth = U32(0)
    /\ psamples = <<>>
    /\ pstatus = "none"
    /\ poob = FALSE

IdleParserVars ==
    /\ pdata = <<>>
    /\ pkind = "suunto"
    /\ pcb = FALSE
    /\ ppc = "idle"
    /\ poffset = 0
    /\ ptime = U32(0)
    /\ pdepth = U32(0)
    /\ psamples = <<>>
    /\ pstopAt = 0
    /\ pstatus = "none"
    /\ poob = FALSE

\* the backend check, the size check and the locals' initial values
PEnter ==
    /\ ppc = "entry"
    /\ IF pkind # "suunto"
       THEN ppc' = "done" /\ pstatus' = DC_STATUS_INVALIDARGS /\ UNCHANGED poffset
       ELSE IF Len(pdata) < 4
       THEN ppc' = "done" /\ pstatus' = DC_STATUS_DATAFORMAT /\ UNCHANGED poffset
       ELSE ppc' = "loop" /\ poffset' = 3 /\ UNCHANGED pstatus
    /\ UNCHANGED <<pdata, pkind, pcb, ptime, pdepth, psamples, pstopAt, poob>>
    /\ UNCHANGED <<xvars, dvars, fvars>>

\* the loop's condition holds: offset < size && data[offset] != 0x80
InLoop == ppc = "loop" /\ poffset < Len(pdata) /\ pdata[poffset + 1] # 128

\* one iteration over a depth byte that is no overflow code
PDepth ==
    /\ InLoop
    /\ LET value == pdata[poffset + 1]
       IN  /\ IsDepthByte(value)
           /\ ~IsOverflowByte(value)
           /\ poffset' = poffset + 1
           /\ ptime' = NextTime(ptime)
           /\ pdepth' = AddDelta(pdepth, value)
           /\ psamples' = Deliver(psamples, <<TimeSample(ptime'), DepthSample(pdepth')>>)
    /\ UNCHANGED <<pdata, pkind, pcb, ppc, pstopAt, pstatus, poob>>
    /\ UNCHANGED <<xvars, dvars, fvars>>

\* one iteration over an overflow code and its continuation byte
PDepthOverflow ==
    /\ InLoop
    /\ LET value == pdata[poffset + 1]
       IN  /\ IsOverflowByte(value)
           /\ ~(poffset + 1 + 1 > Len(pdata))
           /\ poffset' = poffset + 2
           /\ ptime' = NextTime(ptime)
           /\ pdepth' = OverflowDepth(pdepth, value, pdata[poffset + 2])
           /\ psamples' = Deliver(psamples, <<TimeSample(ptime'), DepthSample(pdepth')>>)
    /\ UNCHANGED <<pdata, pkind, pcb, ppc, pstopAt, pstatus, poob>>
    /\ UNCHANGED <<xvars, dvars, fvars>>

\* one iteration over an overflow code that is the record's last byte
PTruncated ==
    /\ InLoop
    /\ LET value == pdata[poffset + 1]
       IN  /\ IsOverflowByte(value)
           /\ poffset + 1 + 1 > Len(pdata)
           /\ poffset' = poffset + 1
           /\ ptime' = NextTime(ptime)
           /\ pdepth' = AddDelta(pdepth, value)
           /\ psamples' = Deliver(psamples, <<TimeSample(ptime')>>)
    /\ ppc' = "done"
    /\ pstatus' = DC_STATUS_DATAFORMAT
    /\ UNCHANGED <<pdata, pkind, pcb, pstopAt, poob>>
    /\ UNCHANGED <<xvars, dvars, fvars>>

\* one iteration over an event byte
PEvent ==
    /\ InLoop
    /\ LET value == pdata[poffset + 1]
       IN  /\ ~IsDepthByte(value)
           /\ poffset' = poffset + 1
           /\ psamples' = Deliver(psamples, <<EventSample(value)>>)
    /\ UNCHANGED <<pdata, pkind, pcb, ppc, ptime, pdepth, pstopAt, pstatus, poob>>
    /\ UNCHANGED <<xvars, dvars, fvars>>

\* the loop ends on a terminal 0x80 inside the record; the check behind the
\* loop reads it again
PTerminal ==
    /\ ppc = "loop"
    /\ poffset < Len(pdata)
    /\ pdata[poffset + 1] = 128
    /\ ppc' = "done"
    /\ pstatus' = DC_STATUS_SUCCESS
    /\ UNCHANGED <<pdata, pkind, pcb, poffset, ptime, pdepth, psamples, pstopAt, poob>>
    /\ UNCHANGED <<xvars, dvars, fvars>>

\* the bytes the memory behind the record may hold
BeyondBytes == {0, 128}

\* the loop ends with offset == size; the check behind the loop reads
\* data[size], whatever byte lies there
PEndOfBuffer ==
    /\ ppc = "loop"
    /\ ~(poffset < Len(pdata))
    /\ \E beyond \in BeyondBytes :
           pstatus' = (IF beyond # 128 THEN DC_STATUS_DATAFORMAT ELSE DC_STATUS_SUCCESS)
    /\ poob' = TRUE
    /\ ppc' = "done"
    /\ UNCHANGED <<pdata, pkind, pcb, poffset, ptime, pdepth, psamples, pstopAt>>
    /\ UNCHANGED <<xvars, dvars, fvars>>

NextParser ==
    \/ PEnter
    \/ PDepth
    \/ PDepthOverflow
    \/ PTruncated
    \/ PEvent
    \/ PTerminal
    \/ PEndOfBuffer

----------------------------------------------------------------------------
(* The uwatec_smart device session: transfer, handshake, open,             *)
(* set_fingerprint, version and dump.                                      *)

\* the most API calls (set_fingerprint, set_timestamp, dump) made on one open
\* device
MaxCalls == 3
\* the most iterations of dump's chunked read loop that are followed
MaxReads == 4

\* EXITCODE(rc): rc == -1 ? DC_STATUS_IO : DC_STATUS_TIMEOUT
EXITCODE(rc) == IF rc = -1 THEN DC_STATUS_IO ELSE DC_STATUS_TIMEOUT

\* n != size for an int n and an unsigned size: n is converted to unsigned
CountDiffers(n, size) == IntToU32(n) # size

\* the traffic of one uwatec_smart_transfer: the write and, when the write
\* was complete, the read.  wn and rn are what irda_socket_write and
\* irda_socket_read returned, answer the bytes a complete read delivered
WriteEvent(command, wn) ==
    [op |-> "write", bytes |-> command, size |-> Len(command), n |-> wn]
ReadEvent(asize, rn, answer) ==
    [op |-> "read", bytes |-> answer, size |-> asize, n |-> rn]
TransferWire(command, asize, o) ==
    IF CountDiffers(o.wn, U32(Len(command)))
    THEN <<WriteEvent(command, o.wn)>>
    ELSE <<WriteEvent(command, o.wn), ReadEvent(asize, o.rn, o.answer)>>

\* what uwatec_smart_transfer returns
TransferStatus(command, asize, o) ==
    IF CountDiffers(o.wn, U32(Len(command))) THEN EXITCODE(o.wn)
    ELSE IF CountDiffers(o.rn, U32(asize)) THEN EXITCODE(o.rn)
    ELSE DC_STATUS_SUCCESS

\* what the transport may do with one transfer: fail the write, report fewer
\* or more bytes written than asked, fail or cut short the read, or deliver
\* one of the given answers
Outcomes(csize, asize, answers) ==
    {[wn |-> w, rn |-> 0, answer |-> <<>>] : w \in {-1, csize - 1, csize + 1}}
        \cup {[wn |-> csize, rn |-> r, answer |-> <<>>] : r \in {-1, asize - 1}}
        \cup {[wn |-> csize, rn |-> asize, answer |-> a] : a \in answers}

\* HandshakeCommand as it would be if the template held a zero byte behind
\* the opcode: opcode, 00, 10, 27, 00
HandshakeCommand_ZeroSecond(opcode) == <<opcode, 0, 16, 39, 0>>

\* the handshake's command template {0x00, 0x10, 0x27, 0, 0} with
\* command[0] set to the stage's opcode
HandshakeCommand(opcode) == <<opcode, 16, 39, 0, 0>>

\* Unexpected as it would be if the answer byte were not verified
Unexpected_NotVerified(answer) == FALSE

\* answer[0] != 0x01
Unexpected(answer) == answer[1] # 1

\* the answers a peer gives to a handshake stage
HandshakeAnswers == {<<1>>, <<0>>}

\* the 9-byte command of dump: the opcode, the timestamp (little endian)
\* and 0x10, 0x27, 0, 0
DumpCommand(opcode, ts) == <<opcode>> \o LE32(ts) \o <<16, 39, 0, 0>>

\* EVENT_PROGRESS_INITIALIZER: {0, UINT_MAX}
ProgressInit == [current |-> U32(0), maximum |-> [hi |-> Limb - 1, lo |-> Limb - 1]]

ProgressEvent(progress) ==
    [type |-> "DC_EVENT_PROGRESS", a |-> progress.current, b |-> progress.maximum]
ClockEvent(dev) == [type |-> "DC_EVENT_CLOCK", a |-> dev, b |-> U32(0)]
DevinfoEvent(model, serial) == [type |-> "DC_EVENT_DEVINFO", a |-> U32(model), b |-> serial]

\* progress.maximum = 4 + 9 + (length ? length + 4 : 0)
ProgressMaximum(length) ==
    Add32(U32(4 + 9), IF length # U32(0) THEN Add32(length, U32(4)) ELSE U32(0))

\* EmptyDump as it would be if an empty dump were not returned at once
EmptyDump_GoesOn(length) == FALSE

\* if (length == 0) return DC_STATUS_SUCCESS
EmptyDump(length) == length = U32(0)

\* the packet size of one loop iteration: 32, raised to available when
\* available > len (an unsigned comparison), limited to length - nbytes when
\* nbytes + len > length (in 32-bit unsigned arithmetic)
ChunkLen(available, nbytes, length) ==
    LET len == IF Gt32(IntToU32(available), U32(32)) THEN IntToU32(available) ELSE U32(32)
    IN  IF Gt32(Add32(nbytes, len), length) THEN Sub32(length, nbytes) ELSE len

\* what irda_socket_available may return: an error, nothing, more than a
\* packet, and the largest int
AvailValues == {-1, 0, 40, 2147483647}

\* what irda_socket_read may return when asked for len bytes: an error,
\* nothing (a timeout), or all of them
ChunkResults(len) == {-1, 0} \cup (IF Small32(len) THEN {Nat32(len)} ELSE {})

\* the lengths the device may answer the length query with
DumpLengths == {U32(0), U32(1), U32(33), U32(70)}

\* the totals the device may answer the data query with
DumpTotals(length) == {Add32(length, U32(4)), length}

\* the fingerprints the caller may set: none, two of 4 bytes, one of 3
Fingerprints == {<<>>, <<1, 0, 0, 0>>, <<0, 0, 1, 128>>, <<1, 2, 3>>}

\* what may become of open before the handshake
OpenOutcomes ==
    {"out_null", "no_memory", "socket_open", "discover", "no_device", "connect", "connected"}

InitDeviceVars ==
    /\ dpc = "closed"
    /\ dsocket = FALSE
    /\ timestamp = U32(0)
    /\ devtime = U32(0)
    /\ systime = "unset"
    /\ wire = <<>>
    /\ hsStatus = "none"
    /\ dstatus = "none"
    /\ dcalls = 0
    /\ dbuffer \in {U32(0), U32(7)}
    /\ dlength = U32(0)
    /\ dtotal = U32(0)
    /\ dnbytes = U32(0)
    /\ dprogress = ProgressInit
    /\ devents = <<>>
    /\ dreads = <<>>
    /\ dfp = <<>>

IdleDeviceVars ==
    /\ dpc = "idle"
    /\ dsocket = FALSE
    /\ timestamp = U32(0)
    /\ devtime = U32(0)
    /\ systime = "unset"
    /\ wire = <<>>
    /\ hsStatus = "none"
    /\ dstatus = "none"
    /\ dcalls = 0
    /\ dbuffer = U32(0)
    /\ dlength = U32(0)
    /\ dtotal = U32(0)
    /\ dnbytes = U32(0)
    /\ dprogress = ProgressInit
    /\ devents = <<>>
    /\ dreads = <<>>
    /\ dfp = <<>>

dumpLocals == <<dlength, dtotal, dnbytes, dprogress, devents, dreads>>

\* uwatec_smart_device_open up to the handshake: the argument check, the
\* allocation, the default values, and the socket's open, discover, connect
OpenBegin ==
    /\ dpc = "closed"
    /\ \E outcome \in OpenOutcomes :
        /\ dstatus' = (CASE outcome = "out_null" -> DC_STATUS_INVALIDARGS
                         [] outcome = "no_memory" -> DC_STATUS_NOMEMORY
                         [] outcome = "connected" -> "none"
                         [] OTHER -> DC_STATUS_IO)
        /\ dpc' = (IF outcome = "connected" THEN "handshake1" ELSE "open_failed")
        /\ dsocket' = (outcome = "connected")
    /\ timestamp' = U32(0)
    /\ devtime' = U32(0)
    /\ systime' = "unset"
    /\ wire' = <<>>
    /\ UNCHANGED <<hsStatus, dcalls, dbuffer, dumpLocals>>
    /\ UNCHANGED dfp
    /\ UNCHANGED <<xvars, pvars, fvars>>

\* uwatec_smart_handshake, stage 1: the 1-byte command 0x1B and its answer
HandshakeStage1 ==
    /\ dpc = "handshake1"
    /\ LET command == SubSeq(HandshakeCommand(27), 1, 1)
       IN  \E o \in Outcomes(1, 1, HandshakeAnswers) :
            LET rc == TransferStatus(command, 1, o)
            IN  /\ wire' = wire \o TransferWire(command, 1, o)
                /\ IF rc # DC_STATUS_SUCCESS
                   THEN hsStatus' = rc /\ dpc' = "handshake_done"
                   ELSE IF Unexpected(o.answer)
                   THEN hsStatus' = DC_STATUS_PROTOCOL /\ dpc' = "handshake_done"
                   ELSE hsStatus' = hsStatus /\ dpc' = "handshake2"
    /\ UNCHANGED <<dsocket, timestamp, devtime, systime, dstatus, dcalls, dbuffer, dumpLocals>>
    /\ UNCHANGED dfp
    /\ UNCHANGED <<xvars, pvars, fvars>>

\* uwatec_smart_handshake, stage 2: the 5-byte command 0x1C and its answer
HandshakeStage2 ==
    /\ dpc = "handshake2"
    /\ LET command == HandshakeCommand(28)
       IN  \E o \in Outcomes(5, 1, HandshakeAnswers) :
            LET rc == TransferStatus(command, 1, o)
            IN  /\ wire' = wire \o TransferWire(command, 1, o)
                /\ hsStatus' = (IF rc # DC_STATUS_SUCCESS THEN rc
                                ELSE IF Unexpected(o.answer) THEN DC_STATUS_PROTOCOL
                                ELSE DC_STATUS_SUCCESS)
    /\ dpc' = "handshake_done"
    /\ UNCHANGED <<dsocket, timestamp, devtime, systime, dstatus, dcalls, dbuffer, dumpLocals>>
    /\ UNCHANGED dfp
    /\ UNCHANGED <<xvars, pvars, fvars>>

\* the status open returns once the handshake has returned
OpenStatus(handshake) == DC_STATUS_SUCCESS

\* uwatec_smart_device_open behind the handshake: *out = device; return
OpenReturn ==
    /\ dpc = "handshake_done"
    /\ dstatus' = OpenStatus(hsStatus)
    /\ dpc' = "ready"
    /\ UNCHANGED <<dsocket, timestamp, devtime, systime, wire, hsStatus, dcalls, dbuffer,
                   dumpLocals>>
    /\ UNCHANGED dfp
    /\ UNCHANGED <<xvars, pvars, fvars>>

\* the device is open and no call is in progress
Ready == dpc \in {"ready", "fingerprint_done", "timestamp_done", "dump_done"}

\* FingerprintTimestamp as it would be if the bytes were read most
\* significant first
FingerprintTimestamp_BigEndian(data) ==
    IF Len(data) # 0 THEN array_uint32_le(data[4], data[3], data[2], data[1]) ELSE U32(0)

\* if (size) device->timestamp = array_uint32_le (data);
\* else device->timestamp = 0;
FingerprintTimestamp(data) ==
    IF Len(data) # 0 THEN array_uint32_le(data[1], data[2], data[3], data[4]) ELSE U32(0)

\* uwatec_smart_device_set_fingerprint
SetFingerprint ==
    /\ Ready
    /\ dcalls < MaxCalls
    /\ \E data \in Fingerprints :
        /\ dfp' = <<data>>
        /\ IF Len(data) # 0 /\ Len(data) # 4
           THEN dstatus' = DC_STATUS_INVALIDARGS /\ UNCHANGED timestamp
           ELSE /\ dstatus' = DC_STATUS_SUCCESS
                /\ timestamp' = FingerprintTimestamp(data)
    /\ dpc' = "fingerprint_done"
    /\ dcalls' = dcalls + 1
    /\ UNCHANGED <<dsocket, devtime, systime, wire, hsStatus, dbuffer, dumpLocals>>
    /\ UNCHANGED <<xvars, pvars, fvars>>

\* the timestamps the caller may set: a small one and the largest
Timestamps == {U32(7), [hi |-> Limb - 1, lo |-> Limb - 1]}

\* uwatec_smart_device_set_timestamp
SetTimestamp ==
    /\ Ready
    /\ dcalls < MaxCalls
    /\ \E ts \in Timestamps : timestamp' = ts
    /\ dstatus' = DC_STATUS_SUCCESS
    /\ dpc' = "timestamp_done"
    /\ dcalls' = dcalls + 1
    /\ UNCHANGED <<dsocket, devtime, systime, wire, hsStatus, dbuffer, dumpLocals>>
    /\ UNCHANGED dfp
    /\ UNCHANGED <<xvars, pvars, fvars>>

\* uwatec_smart_device_dump up to the version query: dc_buffer_clear and
\* the first progress event
DumpBegin ==
    /\ Ready
    /\ dcalls < MaxCalls
    /\ dcalls' = dcalls + 1
    /\ wire' = <<>>
    /\ dlength' = U32(0)
    /\ dtotal' = U32(0)
    /\ dnbytes' = U32(0)
    /\ dreads' = <<>>
    /\ dprogress' = ProgressInit
    /\ \E cleared \in BOOLEAN :
        IF ~cleared
        THEN /\ dstatus' = DC_STATUS_NOMEMORY
             /\ dpc' = "dump_done"
             /\ devents' = <<>>
             /\ UNCHANGED dbuffer
        ELSE /\ dstatus' = "none"
             /\ dpc' = "version_model"
             /\ devents' = <<ProgressEvent(ProgressInit)>>
             /\ dbuffer' = U32(0)
    /\ UNCHANGED <<dsocket, timestamp, devtime, systime, hsStatus>>
    /\ UNCHANGED dfp
    /\ UNCHANGED <<xvars, pvars, fvars>>

\* uwatec_smart_device_version: the model number (command 0x10, 1 byte)
VersionModel ==
    /\ dpc = "version_model"
    /\ \E o \in Outcomes(1, 1, {<<16>>}) :
        LET rc == TransferStatus(<<16>>, 1, o)
        IN  /\ wire' = wire \o TransferWire(<<16>>, 1, o)
            /\ dstatus' = (IF rc # DC_STATUS_SUCCESS THEN rc ELSE dstatus)
            /\ dpc' = (IF rc # DC_STATUS_SUCCESS THEN "dump_done" ELSE "version_serial")
    /\ UNCHANGED <<dsocket, timestamp, devtime, systime, hsStatus, dcalls, dbuffer, dumpLocals>>
    /\ UNCHANGED dfp
    /\ UNCHANGED <<xvars, pvars, fvars>>

\* uwatec_smart_device_version: the serial number (command 0x14, 4 bytes)
VersionSerial ==
    /\ dpc = "version_serial"
    /\ \E o \in Outcomes(1, 4, {<<7, 1, 0, 0>>}) :
        LET rc == TransferStatus(<<20>>, 4, o)
        IN  /\ wire' = wire \o TransferWire(<<20>>, 4, o)
            /\ dstatus' = (IF rc # DC_STATUS_SUCCESS THEN rc ELSE dstatus)
            /\ dpc' = (IF rc # DC_STATUS_SUCCESS THEN "dump_done" ELSE "version_clock")
    /\ UNCHANGED <<dsocket, timestamp, devtime, systime, hsStatus, dcalls, dbuffer, dumpLocals>>
    /\ UNCHANGED dfp
    /\ UNCHANGED <<xvars, pvars, fvars>>

\* uwatec_smart_device_version: the timestamp (command 0x1A, 4 bytes); then
\* dump stores the clock calibration and emits progress, clock and devinfo
VersionClock ==
    /\ dpc = "version_clock"
    /\ \E o \in Outcomes(1, 4, {<<0, 2, 0, 0>>}) :
        LET rc == TransferStatus(<<26>>, 4, o)
            a == o.answer
            serial == wire[4].bytes
            progress == [dprogress EXCEPT !.current = Add32(@, U32(9))]
        IN  /\ wire' = wire \o TransferWire(<<26>>, 4, o)
            /\ IF rc # DC_STATUS_SUCCESS
               THEN /\ dstatus' = rc
                    /\ dpc' = "dump_done"
                    /\ UNCHANGED <<devtime, systime, dprogress, devents>>
               ELSE /\ dstatus' = dstatus
                    /\ dpc' = "length"
                    /\ systime' = "now"
                    /\ devtime' = array_uint32_le(a[1], a[2], a[3], a[4])
                    /\ dprogress' = progress
                    /\ devents' = devents \o
                         <<ProgressEvent(progress),
                           ClockEvent(devtime'),
                           DevinfoEvent(wire[2].bytes[1],
                               array_uint32_le(serial[1], serial[2], serial[3], serial[4]))>>
    /\ UNCHANGED <<dsocket, timestamp, hsStatus, dcalls, dbuffer, dlength, dtotal, dnbytes,
                   dreads>>
    /\ UNCHANGED dfp
    /\ UNCHANGED <<xvars, pvars, fvars>>

\* dump: the length query (command 0xC6), the progress event behind it, the
\* return for an empty dump and dc_buffer_resize
DumpLength ==
    /\ dpc = "length"
    /\ LET command == DumpCommand(198, timestamp)
       IN  \E o \in Outcomes(9, 4, {LE32(l) : l \in DumpLengths}), resized \in BOOLEAN :
            LET rc == TransferStatus(command, 4, o)
                a == o.answer
                length == array_uint32_le(a[1], a[2], a[3], a[4])
                progress == [current |-> Add32(dprogress.current, U32(4)),
                             maximum |-> ProgressMaximum(length)]
            IN  /\ wire' = wire \o TransferWire(command, 4, o)
                /\ IF rc # DC_STATUS_SUCCESS
                   THEN /\ dstatus' = rc
                        /\ dpc' = "dump_done"
                        /\ UNCHANGED <<dlength, dprogress, devents, dbuffer>>
                   ELSE /\ dlength' = length
                        /\ dprogress' = progress
                        /\ devents' = Append(devents, ProgressEvent(progress))
                        /\ IF EmptyDump(length)
                           THEN /\ dstatus' = DC_STATUS_SUCCESS
                                /\ dpc' = "dump_done"
                                /\ UNCHANGED dbuffer
                           ELSE IF ~resized
                           THEN /\ dstatus' = DC_STATUS_NOMEMORY
                                /\ dpc' = "dump_done"
                                /\ UNCHANGED dbuffer
                           ELSE /\ dstatus' = dstatus
                                /\ dpc' = "data"
                                /\ dbuffer' = length
    /\ UNCHANGED <<dsocket, timestamp, devtime, systime, hsStatus, dcalls, dtotal, dnbytes,
                   dreads>>
    /\ UNCHANGED dfp
    /\ UNCHANGED <<xvars, pvars, fvars>>

\* dump: the data query (command 0xC4), the progress event behind it and
\* the check of the total
DumpData ==
    /\ dpc = "data"
    /\ LET command == DumpCommand(196, timestamp)
       IN  \E o \in Outcomes(9, 4, {LE32(t) : t \in DumpTotals(dlength)}) :
            LET rc == TransferStatus(command, 4, o)
                a == o.answer
                total == array_uint32_le(a[1], a[2], a[3], a[4])
                progress == [dprogress EXCEPT !.current = Add32(@, U32(4))]
            IN  /\ wire' = wire \o TransferWire(command, 4, o)
                /\ IF rc # DC_STATUS_SUCCESS
                   THEN /\ dstatus' = rc
                        /\ dpc' = "dump_done"
                        /\ UNCHANGED <<dtotal, dprogress, devents>>
                   ELSE /\ dtotal' = total
                        /\ dprogress' = progress
                        /\ devents' = Append(devents, ProgressEvent(progress))
                        /\ IF total # Add32(dlength, U32(4))
                           THEN dstatus' = DC_STATUS_PROTOCOL /\ dpc' = "dump_done"
                           ELSE dstatus' = dstatus /\ dpc' = "loop"
    /\ dnbytes' = U32(0)
    /\ UNCHANGED <<dsocket, timestamp, devtime, systime, hsStatus, dcalls, dbuffer, dlength,
                   dreads>>
    /\ UNCHANGED dfp
    /\ UNCHANGED <<xvars, pvars, fvars>>

\* dump: one iteration of the chunked read loop
DumpChunk ==
    /\ dpc = "loop"
    /\ Lt32(dnbytes, dlength)
    /\ Len(dreads) < MaxReads
    /\ \E available \in AvailValues :
        LET len == ChunkLen(available, dnbytes, dlength)
        IN  \E n \in ChunkResults(len) :
             LET progress == [dprogress EXCEPT !.current = Add32(@, IntToU32(n))]
             IN  /\ dreads' = Append(dreads, [offset |-> dnbytes, size |-> len, n |-> n,
                                              available |-> available])
                 /\ IF CountDiffers(n, len)
                    THEN /\ dstatus' = EXITCODE(n)
                         /\ dpc' = "dump_done"
                         /\ UNCHANGED <<dnbytes, dprogress, devents>>
                    ELSE /\ dprogress' = progress
                         /\ devents' = Append(devents, ProgressEvent(progress))
                         /\ dnbytes' = Add32(dnbytes, IntToU32(n))
                         /\ UNCHANGED <<dstatus, dpc>>
    /\ UNCHANGED <<dsocket, timestamp, devtime, systime, wire, hsStatus, dcalls, dbuffer,
                   dlength, dtotal>>
    /\ UNCHANGED dfp
    /\ UNCHANGED <<xvars, pvars, fvars>>

\* dump: the loop's exit, nbytes >= length
DumpReturn ==
    /\ dpc = "loop"
    /\ ~Lt32(dnbytes, dlength)
    /\ dstatus' = DC_STATUS_SUCCESS
    /\ dpc' = "dump_done"
    /\ UNCHANGED <<dsocket, timestamp, devtime, systime, wire, hsStatus, dcalls, dbuffer,
                   dumpLocals>>
    /\ UNCHANGED dfp
    /\ UNCHANGED <<xvars, pvars, fvars>>

\* uwatec_smart_device_close
Close ==
    /\ Ready
    /\ \E closed \in BOOLEAN :
        dstatus' = (IF closed THEN DC_STATUS_SUCCESS ELSE DC_STATUS_IO)
    /\ dsocket' = FALSE
    /\ dpc' = "freed"
    /\ UNCHANGED <<timestamp, devtime, systime, wire, hsStatus, dcalls, dbuffer, dumpLocals>>
    /\ UNCHANGED dfp
    /\ UNCHANGED <<xvars, pvars, fvars>>

Next ==
    \/ OpenBegin
    \/ HandshakeStage1
    \/ HandshakeStage2
    \/ OpenReturn
    \/ SetFingerprint
    \/ SetTimestamp
    \/ DumpBegin
    \/ VersionModel
    \/ VersionSerial
    \/ VersionClock
    \/ DumpLength
    \/ DumpData
    \/ DumpChunk
    \/ DumpReturn
    \/ Close

----------------------------------------------------------------------------
(* A suunto_solution parser: set_data and get_field.  The calls are made   *)
(* on a parser that suunto_solution_parser_create returned.                *)

\* the most coded bytes (after the 3-byte header) of a record given to set_data
MaxFieldCoded == 4

\* the coded bytes those records are made of: a small descent, both overflow
\* codes, an event code and the terminal
FieldBytes == {3, 125, 126, 128, 131}

\* the dive records the application may have: cut-short headers, and a
\* 3-byte header followed by coded bytes
FieldRecords ==
    {Zeros(n) : n \in 0..2} \cup {Zeros(3) \o c : c \in SeqsUpTo(FieldBytes, MaxFieldCoded)}

\* a record the parser may have been used on before: 03 80 01
EarlierRecord == <<0, 0, 0, 3, 128, 1>>

\* the field types asked for; the last one is none that get_field supports
FieldTypes ==
    {"DC_FIELD_DIVETIME", "DC_FIELD_MAXDEPTH", "DC_FIELD_GASMIX_COUNT", "DC_FIELD_GASMIX",
     "DC_FIELD_AVGDEPTH"}

\* the queries made: each type with a value to store to, and one without
FieldQueries == {<<t, TRUE>> : t \in FieldTypes} \cup {<<"DC_FIELD_DIVETIME", FALSE>>}

\* get_field's pass over the coded bytes, from the loop's state before an
\* iteration to its state when the function leaves the loop: by the loop's
\* condition, or (truncated) by the return inside it
RECURSIVE FieldPass(_, _, _, _, _)
FieldPass(data, offset, depth, maxdepth, nsamples) ==
    IF ~(offset < Len(data) /\ data[offset + 1] # 128)
    THEN [truncated |-> FALSE, offset |-> offset, maxdepth |-> maxdepth, nsamples |-> nsamples]
    ELSE LET value == data[offset + 1]
         IN  IF ~IsDepthByte(value)
             THEN FieldPass(data, offset + 1, depth, maxdepth, nsamples)
             ELSE IF IsOverflowByte(value) /\ offset + 1 + 1 > Len(data)
             THEN [truncated |-> TRUE, offset |-> offset + 1, maxdepth |-> maxdepth,
                   nsamples |-> nsamples]
             ELSE LET d == IF IsOverflowByte(value)
                           THEN OverflowDepth(depth, value, data[offset + 2])
                           ELSE AddDelta(depth, value)
                      next == IF IsOverflowByte(value) THEN offset + 2 ELSE offset + 1
                  IN  FieldPass(data, next, d, IF Gt32(d, maxdepth) THEN d ELSE maxdepth,
                                nsamples + 1)

\* marker + 1 >= size || data[marker] != 0x80
NoEndMarker(data, marker) == marker + 1 >= Len(data) \/ data[marker + 1] # 128

\* (nsamples * 3 + data[marker + 1]) * 60; nsamples is at most the record's
\* length, so the product stays far below 2^32
DiveTime(nsamples, trailing) == U32((nsamples * 3 + trailing) * 60)

\* what get_field stores in *value for a type it supports.  The max depth
\* is given in feet; the caller sees it times FEET, as a double.  The gas
\* mix is given in percent
FieldValue(type, divetime, maxdepth) ==
    CASE type = "DC_FIELD_DIVETIME" -> [divetime |-> divetime]
      [] type = "DC_FIELD_MAXDEPTH" -> [maxdepth |-> maxdepth]
      [] type = "DC_FIELD_GASMIX_COUNT" -> [count |-> 1]
      [] type = "DC_FIELD_GASMIX" -> [helium |-> 0, oxygen |-> 21, nitrogen |-> 79]

Supported(type) ==
    type \in {"DC_FIELD_DIVETIME", "DC_FIELD_MAXDEPTH", "DC_FIELD_GASMIX_COUNT",
              "DC_FIELD_GASMIX"}

\* the parser suunto_solution_parser_create returns: no data, an empty cache
InitFieldVars ==
    /\ fdive \in FieldRecords
    /\ fdata = <<>>
    /\ fcached = FALSE
    /\ fdivetime = U32(0)
    /\ fmaxdepth = U32(0)
    /\ fcall = "create"
    /\ ftype = "none"
    /\ fvalue = <<>>
    /\ fstatus = DC_STATUS_SUCCESS

IdleFieldVars ==
    /\ fdive = <<>>
    /\ fdata = <<>>
    /\ fcached = FALSE
    /\ fdivetime = U32(0)
    /\ fmaxdepth = U32(0)
    /\ fcall = "idle"
    /\ ftype = "none"
    /\ fvalue = <<>>
    /\ fstatus = "none"

\* FSetData as it would be if set_data left the cache as it is
FSetData_KeepsCache ==
    /\ fcall # "idle"
    /\ \E data \in {fdive, EarlierRecord} : fdata' = data
    /\ fcall' = "set_data"
    /\ ftype' = "none"
    /\ fvalue' = <<>>
    /\ fstatus' = DC_STATUS_SUCCESS
    /\ UNCHANGED <<fdive, fcached, fdivetime, fmaxdepth>>
    /\ UNCHANGED <<xvars, pvars, dvars>>

\* dc_parser_set_data: the record becomes the parser's data, and
\* suunto_solution_parser_set_data resets the cache
FSetData ==
    /\ fcall # "idle"
    /\ \E data \in {fdive, EarlierRecord} : fdata' = data
    /\ fcached' = FALSE
    /\ fdivetime' = U32(0)
    /\ fmaxdepth' = U32(0)
    /\ fcall' = "set_data"
    /\ ftype' = "none"
    /\ fvalue' = <<>>
    /\ fstatus' = DC_STATUS_SUCCESS
    /\ UNCHANGED fdive
    /\ UNCHANGED <<xvars, pvars, dvars>>

\* suunto_solution_parser_get_field
FGetField ==
    /\ fcall # "idle"
    /\ fcall' = "get_field"
    /\ \E q \in FieldQueries :
        LET type == q[1]
            pass == FieldPass(fdata, 3, U32(0), U32(0), 0)
            fill == ~fcached
            bad == Len(fdata) < 4
                     \/ (fill /\ (pass.truncated \/ NoEndMarker(fdata, pass.offset)))
            divetime == IF fill THEN DiveTime(pass.nsamples, fdata[pass.offset + 2])
                        ELSE fdivetime
            maxdepth == IF fill THEN pass.maxdepth ELSE fmaxdepth
        IN  /\ ftype' = type
            /\ IF bad
               THEN /\ fstatus' = DC_STATUS_DATAFORMAT
                    /\ fvalue' = <<>>
                    /\ UNCHANGED <<fcached, fdivetime, fmaxdepth>>
               ELSE /\ fcached' = TRUE
                    /\ fdivetime' = divetime
                    /\ fmaxdepth' = maxdepth
                    /\ fvalue' = (IF q[2] /\ Supported(type)
                                  THEN <<FieldValue(type, divetime, maxdepth)>>
                                  ELSE <<>>)
                    /\ fstatus' = (IF q[2] /\ ~Supported(type)
                                   THEN DC_STATUS_UNSUPPORTED
                                   ELSE DC_STATUS_SUCCESS)
    /\ UNCHANGED <<fdive, fdata>>
    /\ UNCHANGED <<xvars, pvars, dvars>>

NextFields ==
    \/ FSetData
    \/ FGetField

----------------------------------------------------------------------------
(* The specifications.                                                     *)

InitExtract == InitExtractVars /\ IdleParserVars /\ IdleDeviceVars /\ IdleFieldVars

SpecExtract == InitExtract /\ [][NextExtract]_vars

InitParser == InitParserVars /\ IdleExtractVars /\ IdleDeviceVars /\ IdleFieldVars

Init == InitDeviceVars /\ IdleExtractVars /\ IdleParserVars /\ IdleFieldVars

Spec == Init /\ [][Next]_vars

SpecParser == InitParser /\ [][NextParser]_vars

InitFields == InitFieldVars /\ IdleExtractVars /\ IdleParserVars /\ IdleDeviceVars

SpecFields == InitFields /\ [][NextFields]_vars

\* one record given to both entry points of a suunto parser: samples_foreach
\* runs over it with a callback, and set_data and get_field are called on it
InitBoth ==
    /\ InitFieldVars
    /\ pdata = fdive
    /\ pkind = "suunto"
    /\ pcb = TRUE
    /\ pstopAt = 0
    /\ ppc = "entry"
    /\ poffset = 0
    /\ ptime = U32(0)
    /\ pdepth = U32(0)
    /\ psamples = <<>>
    /\ pstatus = "none"
    /\ poob = FALSE
    /\ IdleExtractVars
    /\ IdleDeviceVars

NextBoth ==
    \/ NextParser
    \/ NextFields

SpecBoth == InitBoth /\ [][NextBoth]_vars

----------------------------------------------------------------------------
(* The decoder as a function of the record: the samples a run over         *)
(* data[offset..size) delivers to a consumer, from running time and depth. *)

RECURSIVE DecodeFrom(_, _, _, _)
DecodeFrom(data, offset, time, depth) ==
    IF ~(offset < Len(data) /\ data[offset + 1] # 128) THEN <<>>
    ELSE LET value == data[offset + 1]
         IN  IF ~IsDepthByte(value)
             THEN <<EventSample(value)>> \o DecodeFrom(data, offset + 1, time, depth)
             ELSE IF ~IsOverflowByte(value)
             THEN <<TimeSample(NextTime(time)), DepthSample(AddDelta(depth, value))>>
                      \o DecodeFrom(data, offset + 1, NextTime(time), AddDelta(depth, value))
             ELSE IF offset + 1 + 1 > Len(data)
             THEN <<TimeSample(NextTime(time))>>
             ELSE LET d == AddDelta(AddDelta(depth, value), data[offset + 2])
                  IN  <<TimeSample(NextTime(time)), DepthSample(d)>>
                          \o DecodeFrom(data, offset + 2, NextTime(time), d)

DecodedSamples(data) == IF Len(data) < 4 THEN <<>> ELSE DecodeFrom(data, 3, U32(0), U32(0))

----------------------------------------------------------------------------
(* Claims about uwatec_smart_extract_dives (checked under SpecExtract).    *)

\* the upper bound of the i-th reported record: the start of the record
\* reported before it, the buffer size for the first
BoundOf(i) == IF i = 1 THEN Len(xdata) ELSE xcalls[i - 1].start

\* start + len <= bound, as numbers (not modulo 2^32)
EndsWithin(start, len, bound) == len.hi = 0 /\ start + len.lo <= bound

\* C1: every record [p, p+len) handed to the consumer ends at or before the
\* start of the record reported before it (the buffer size for the first), so
\* no two reported records overlap and none extends beyond the buffer end.
\* The code's check adds modulo 2^32, and this fails.
C1_RecordsWithinBound ==
    \A i \in 1..Len(xcalls) : EndsWithin(xcalls[i].start, xcalls[i].len, BoundOf(i))

\* C5: once the consumer signals "stop" for a record, that call is the last
\* consumer call and extract_dives has returned success, whatever markers
\* lie at lower offsets.
C5_StopEndsScan ==
    \A i \in 1..Len(xcalls) :
        xcalls[i].answer = "stop" =>
            /\ i = Len(xcalls)
            /\ xpc = "done"
            /\ xstatus = DC_STATUS_SUCCESS

\* C5's case: the consumer stopped the scan at a record while a marker with
\* an acceptable length still lay at a lower offset.
C5_Witness ==
    /\ xpc = "done"
    /\ Len(xcalls) >= 1
    /\ xcalls[Len(xcalls)].answer = "stop"
    /\ \E p \in 0..(xcurrent - 5) :
           /\ MarkerAt(xdata, xbeyond, p)
           /\ ~Overflows(p, LenAt(xdata, xbeyond, p), xcurrent)

\* C6: an iteration that meets a marker at p whose length field makes
\* p + len exceed the start of the previously accepted record (initially the
\* buffer end) returns DataFormatError and makes no consumer call.
\* The code's check adds modulo 2^32, and this fails.
C6_OverlapRejected ==
    [][(/\ xpc = "loop"
        /\ xcurrent > 0
        /\ MarkerAt(xdata, xbeyond, xcurrent - 1)
        /\ ~EndsWithin(xcurrent - 1, LenAt(xdata, xbeyond, xcurrent - 1), xprevious))
       => (/\ xpc' = "done"
           /\ xstatus' = DC_STATUS_DATAFORMAT
           /\ xcalls' = xcalls)]_vars

----------------------------------------------------------------------------
(* Claims about suunto_solution_parser_samples_foreach (SpecParser).       *)

\* the iteration about to run is over an overflow code with its continuation
AtOverflowPair(code) ==
    /\ InLoop
    /\ pdata[poffset + 1] = code
    /\ poffset + 1 < Len(pdata)

\* the record 00 00 00 03 7D 02 80
C2_Stream == <<0, 0, 0, 3, 125, 2, 128>>

\* C2 as stated: 0x7D followed by k changes the running depth by 124 + k and
\* 0x83 followed by k by -125 + k; the stream 03 7D 02 80 yields Time,
\* Depth (3), Time, Depth (3 + 126) and success.
C2_Original ==
    [][/\ AtOverflowPair(125) =>
            pdepth' = Add32(pdepth, IntToU32(124 + SignedChar(pdata[poffset + 2])))
       /\ AtOverflowPair(131) =>
            pdepth' = Add32(pdepth, IntToU32(-125 + SignedChar(pdata[poffset + 2])))
       /\ (pdata = C2_Stream /\ pcb /\ ppc = "loop" /\ ppc' = "done") =>
            /\ pstatus' = DC_STATUS_SUCCESS
            /\ psamples' = <<TimeSample(U32(180)), DepthSample(U32(3)),
                             TimeSample(U32(360)), DepthSample(U32(3 + 126))>>]_vars

\* C2, amended: 0x7D followed by k changes the running depth (a 32-bit
\* unsigned accumulator) by 125 + k and 0x83 followed by k by -125 + k, k
\* read as a signed 8-bit value; the stream 03 7D 02 80 yields Time,
\* Depth (3), Time, Depth (3 + 127) and success.
C2_OverflowDelta ==
    [][/\ AtOverflowPair(125) =>
            pdepth' = Add32(pdepth, IntToU32(125 + SignedChar(pdata[poffset + 2])))
       /\ AtOverflowPair(131) =>
            pdepth' = Add32(pdepth, IntToU32(-125 + SignedChar(pdata[poffset + 2])))
       /\ (pdata = C2_Stream /\ pcb /\ ppc = "loop" /\ ppc' = "done") =>
            /\ pstatus' = DC_STATUS_SUCCESS
            /\ psamples' = <<TimeSample(U32(180)), DepthSample(U32(3)),
                             TimeSample(U32(360)), DepthSample(U32(3 + 127))>>]_vars

\* C2's case: the stream 03 7D 02 80 was decoded to its end, the overflow
\* pair included.
C2_Witness ==
    /\ pdata = C2_Stream
    /\ pcb
    /\ ppc = "done"
    /\ Len(psamples) = 4
    /\ psamples[4].type = "DC_SAMPLE_DEPTH"

\* C3: a run over a record of size >= 4 that consumes the coded bytes to
\* the buffer end without meeting a terminal 0x80 returns DataFormatError
\* and reads no byte at an index >= size; a record with data[3] == 0x80
\* delivers no sample and returns success.
\* The check behind the loop reads data[size], and this fails.
C3_TerminalLaw ==
    (ppc = "done" /\ pkind = "suunto" /\ Len(pdata) >= 4) =>
        /\ poffset = Len(pdata) => (pstatus = DC_STATUS_DATAFORMAT /\ ~poob)
        /\ pdata[4] = 128 => (psamples = <<>> /\ pstatus = DC_STATUS_SUCCESS)

\* C4 as stated: once the consumer has signalled "stop" on a sample, no
\* further sample is delivered to it, and the call returns success.
C4_Original ==
    \A i \in 1..Len(psamples) :
        Answer(i) = "stop" =>
            /\ i = Len(psamples)
            /\ ppc = "done" => pstatus = DC_STATUS_SUCCESS

\* C4, amended: samples_foreach makes no use of what the sample consumer
\* signals.  Whatever the consumer answers, a finished call has delivered
\* every sample the record decodes to, those after a "stop" included, and
\* returns success exactly when the loop ended on a terminal 0x80 (or on a
\* byte 0x80 found behind the record).
C4_StopIgnored ==
    (ppc = "done" /\ pkind = "suunto" /\ pcb) =>
        /\ psamples = DecodedSamples(pdata)
        /\ (Len(pdata) >= 4 /\ poffset < Len(pdata) /\ pdata[poffset + 1] = 128)
               => pstatus = DC_STATUS_SUCCESS

\* C4's case: the consumer signalled "stop" on the first sample, and the
\* call went on to deliver at least two more and returned success.
C4_Witness ==
    /\ ppc = "done"
    /\ pcb
    /\ pstopAt = 1
    /\ Len(psamples) >= 3
    /\ pstatus = DC_STATUS_SUCCESS

----------------------------------------------------------------------------
(* Claims about the device session (checked under Spec).                   *)

\* the positions in the traffic at which a command with this opcode is written
Writes(opcode) ==
    {i \in 1..Len(wire) : wire[i].op = "write" /\ wire[i].bytes[1] = opcode}

\* the command written at position i was written whole and its answer read whole
Answered(i) ==
    /\ wire[i].op = "write"
    /\ wire[i].n = wire[i].size
    /\ i + 1 <= Len(wire)
    /\ wire[i + 1].op = "read"
    /\ wire[i + 1].n = wire[i + 1].size

\* ... and the answer was these bytes
AnsweredWith(i, bytes) == Answered(i) /\ wire[i + 1].bytes = bytes

\* the traffic is that of open's handshake, under way or over
AtHandshake == dpc \in {"handshake1", "handshake2", "handshake_done", "ready"}
HandshakeOver == dpc \in {"handshake_done", "ready"}

\* C7: the stage-2 command (0x1C) is written only after stage 1 (0x1B) was
\* answered with 0x01; each stage's command is written at most once; a write
\* or read that fails makes the handshake return that failure, an answer
\* other than 0x01 ProtocolError, and the handshake returns success exactly
\* when both stages were answered with 0x01.
C7_HandshakeStages ==
    AtHandshake =>
        /\ Cardinality(Writes(27)) <= 1
        /\ Cardinality(Writes(28)) <= 1
        /\ \A j \in Writes(28) : \E i \in Writes(27) : i < j /\ AnsweredWith(i, <<1>>)
        /\ HandshakeOver =>
            /\ hsStatus = DC_STATUS_SUCCESS <=>
                   /\ \E i \in Writes(27) : AnsweredWith(i, <<1>>)
                   /\ \E j \in Writes(28) : AnsweredWith(j, <<1>>)
            /\ \A i \in 1..Len(wire) :
                   /\ wire[i].n # wire[i].size =>
                          hsStatus = (IF wire[i].n = -1 THEN DC_STATUS_IO
                                      ELSE DC_STATUS_TIMEOUT)
                   /\ (wire[i].op = "read" /\ wire[i].n = wire[i].size
                           /\ wire[i].bytes # <<1>>) => hsStatus = DC_STATUS_PROTOCOL

\* C7's case: stage 1 was answered with 0x01, stage 2 with 0x00, and the
\* handshake returned ProtocolError after four transport operations.
C7_Witness ==
    /\ dpc = "handshake_done"
    /\ hsStatus = DC_STATUS_PROTOCOL
    /\ Len(wire) = 4
    /\ AnsweredWith(1, <<1>>)
    /\ AnsweredWith(3, <<0>>)

\* C8: when the handshake inside open fails, open does not return plain
\* success.  open drops the handshake's status, and this fails.
C8_HandshakeFailureSurfaced ==
    (dpc = "ready" /\ hsStatus # DC_STATUS_SUCCESS) => dstatus # DC_STATUS_SUCCESS

\* the length query of the dump in progress (or just over) was answered with 0
LengthAnsweredZero == \E i \in Writes(198) : AnsweredWith(i, <<0, 0, 0, 0>>)

\* C9: when the length query (0xC6) is answered with L = 0, the dump returns
\* success with an empty buffer at once: the answer is the last traffic of
\* the call, no data query (0xC4) is written and no payload read is issued.
C9_EmptyDump ==
    LengthAnsweredZero =>
        /\ dpc \in {"dump_done", "fingerprint_done", "timestamp_done", "freed"}
        /\ dpc = "dump_done" => dstatus = DC_STATUS_SUCCESS
        /\ dbuffer = U32(0)
        /\ Writes(196) = {}
        /\ dreads = <<>>
        /\ wire[Len(wire)].op = "read"
        /\ \A i \in Writes(198) : i = Len(wire) - 1

\* C9's case: a dump has returned success after a length answer of 0.
C9_Witness ==
    /\ dpc = "dump_done"
    /\ LengthAnsweredZero
    /\ dstatus = DC_STATUS_SUCCESS
    /\ Len(devents) = 5

\* total == length + 4 as numbers (not modulo 2^32)
IsLengthPlus4(total, length) == total = Add32(length, U32(4)) /\ Gt32(total, length)

\* the payload reads so far each delivered at least one byte and together
\* fill the offsets 0 .. upto of the buffer in increasing order, without a gap
ReadsInOrder(upto) ==
    /\ dreads # <<>>
    /\ \A k \in 1..Len(dreads) :
        /\ dreads[k].n > 0
        /\ dreads[k].offset =
               (IF k = 1 THEN U32(0)
                ELSE Add32(dreads[k - 1].offset, IntToU32(dreads[k - 1].n)))
        /\ Gt32(Add32(dreads[k].offset, IntToU32(dreads[k].n)), dreads[k].offset)
    /\ Add32(dreads[Len(dreads)].offset, IntToU32(dreads[Len(dreads)].n)) = upto

\* C10: a dump returns success with L > 0 only if the data query's total is
\* L + 4, the buffer's length is L and exactly L payload bytes were read
\* into it in strictly increasing offset order without a gap; a total other
\* than L + 4 makes it return ProtocolError before any payload read.
\* The loop's int/unsigned arithmetic lets a failed read count as -1 bytes,
\* and the total check wraps modulo 2^32: this fails.
C10_DumpComplete ==
    dpc = "dump_done" =>
        /\ (dstatus = DC_STATUS_SUCCESS /\ dlength # U32(0)) =>
               /\ IsLengthPlus4(dtotal, dlength)
               /\ dbuffer = dlength
               /\ ReadsInOrder(dlength)
        /\ (\E i \in Writes(196) : Answered(i) /\ ~IsLengthPlus4(dtotal, dlength)) =>
               /\ dstatus = DC_STATUS_PROTOCOL
               /\ dreads = <<>>

\* the call whose traffic "wire" holds: open's handshake (its first command
\* is 0x1B) or a dump (its first command is 0x10), and the status the
\* transfer that ended it made the call return
HandshakeTraffic == wire # <<>> /\ wire[1].bytes = <<27>>
DumpTraffic == wire # <<>> /\ wire[1].bytes = <<16>>

\* the status C11 states for a transport operation whose count is not the
\* size asked for: a write gives IoError; a read gives TimeoutError when the
\* transport timed out (it came back with fewer bytes, not with the error
\* value -1) and IoError otherwise
StatedStatus(e) ==
    IF e.op = "write" THEN DC_STATUS_IO
    ELSE IF e.n >= 0 THEN DC_STATUS_TIMEOUT
    ELSE DC_STATUS_IO

\* C11: a transfer whose write reports a count other than the command length
\* returns IoError; one whose read reports a count other than the answer
\* length returns TimeoutError when the transport timed out and IoError
\* otherwise; no write or read follows the mismatch.
\* EXITCODE turns every count but -1 into TimeoutError, for a write as for a
\* read, and this fails.
C11_TransferStatus ==
    \A i \in 1..Len(wire) :
        wire[i].n # wire[i].size =>
            /\ i = Len(wire)
            /\ HandshakeTraffic => hsStatus = StatedStatus(wire[i])
            /\ (DumpTraffic /\ dpc = "dump_done") => dstatus = StatedStatus(wire[i])

\* every 0xC6 and 0xC4 command in the traffic w carries ts, least
\* significant byte first, in its bytes 1..4
CommandsCarry(w, ts) ==
    \A i \in 1..Len(w) :
        (w[i].op = "write" /\ w[i].bytes[1] \in {198, 196}) =>
            /\ w[i].bytes[2] = ts.lo % 256
            /\ w[i].bytes[3] = ts.lo \div 256
            /\ w[i].bytes[4] = ts.hi % 256
            /\ w[i].bytes[5] = ts.hi \div 256

\* the value of four bytes read least significant first
LittleEndian(data) ==
    [hi |-> data[3] + 256 * data[4], lo |-> data[1] + 256 * data[2]]

\* C12: set_fingerprint with 4 bytes sets the timestamp to their
\* little-endian value and returns success, with no bytes sets it to 0 and
\* returns success, and with any other size returns InvalidArgument and
\* leaves the timestamp as it was; apart from set_timestamp, which stores the
\* value it is given, no other step changes the timestamp (a dump never
\* does), and every 0xC6 and 0xC4 command a dump writes carries the
\* timestamp stored when it is written, little endian, in its bytes 1..4.
C12_Fingerprint ==
    [][/\ IF dpc' = "fingerprint_done" /\ dcalls' = dcalls + 1
          THEN LET data == dfp'[1]
               IN  CASE Len(data) = 4 ->
                            /\ dstatus' = DC_STATUS_SUCCESS
                            /\ timestamp' = LittleEndian(data)
                     [] Len(data) = 0 ->
                            /\ dstatus' = DC_STATUS_SUCCESS
                            /\ timestamp' = U32(0)
                     [] OTHER ->
                            /\ dstatus' = DC_STATUS_INVALIDARGS
                            /\ timestamp' = timestamp
          ELSE IF dpc' = "timestamp_done" /\ dcalls' = dcalls + 1
          THEN dstatus' = DC_STATUS_SUCCESS
          ELSE timestamp' = timestamp
       /\ wire' # wire => CommandsCarry(wire', timestamp)]_vars

\* C12's case: the fingerprint 00 00 01 80 was set, and the dump that
\* followed wrote its 0xC6 and 0xC4 commands and returned success.
C12_Witness ==
    /\ dpc = "dump_done"
    /\ dstatus = DC_STATUS_SUCCESS
    /\ dfp = << <<0, 0, 1, 128>> >>
    /\ timestamp = [hi |-> 1 + 256 * 128, lo |-> 0]
    /\ Writes(198) # {}
    /\ Writes(196) # {}

\* max(32, available) as a number
WantedChunk(available) == IF available > 32 THEN available ELSE 32

\* C15: every payload read of the chunked loop asks for max(32, available)
\* bytes, capped to the remainder L - nbytes, so that 1 <= chunk <=
\* L - nbytes, whatever available() returned.
\* A negative available is compared as an unsigned number and nbytes + len
\* is added modulo 2^32, and this fails.
C15_ChunkSize ==
    \A k \in 1..Len(dreads) :
        LET r == dreads[k]
            rest == Sub32(dlength, r.offset)
            wanted == U32(WantedChunk(r.available))
        IN  /\ Lt32(r.offset, dlength)
            /\ Gt32(r.size, U32(0))
            /\ ~Gt32(r.size, rest)
            /\ r.size = (IF Gt32(wanted, rest) THEN rest ELSE wanted)

IsProgress(e) == e.type = "DC_EVENT_PROGRESS"

\* the dump in progress (or just over) has emitted the progress event behind
\* its length query
PastLengthQuery ==
    /\ dpc \in {"data", "loop", "dump_done"}
    /\ Len(SelectSeq(devents, IsProgress)) >= 3

\* 4 + 9 + (L > 0 ? L + 4 : 0) as a number
StatedMaximum(length) == 4 + 9 + (IF length # U32(0) THEN Nat32(length) + 4 ELSE 0)

\* C16: the progress event behind the length query carries the maximum
\* 4 + 9 + (L > 0 ? L + 4 : 0); from then on every progress event has that
\* maximum and current <= maximum; current never decreases from one progress
\* event of a dump to the next; every chunk read is followed by one progress
\* event; and a dump that returns success has current == maximum in its last
\* progress event.
\* A read that fails while len is 2^32 - 1 counts as -1 bytes, and current
\* goes down: this fails.
C16_Progress ==
    LET P == SelectSeq(devents, IsProgress)
    IN  /\ dpc \in {"version_model", "version_serial", "version_clock", "length", "data",
                    "loop", "dump_done"} =>
               \A k \in 2..Len(P) : ~Lt32(P[k].a, P[k - 1].a)
        /\ PastLengthQuery =>
               /\ \A k \in 3..Len(P) :
                      /\ P[k].b = U32(StatedMaximum(dlength))
                      /\ ~Gt32(P[k].a, P[k].b)
               /\ dpc = "loop" => Len(P) = 4 + Len(dreads)
               /\ dstatus = DC_STATUS_SUCCESS => P[Len(P)].a = P[Len(P)].b

\* C19 as stated: the stage-2 command is the 5 bytes 1C 00 10 27 00, and it
\* is written only after the 1-byte stage-1 command 1B.
C19_Original ==
    \A j \in Writes(28) :
        /\ wire[j].bytes = <<28, 0, 16, 39, 0>>
        /\ \E i \in Writes(27) : i < j /\ wire[i].bytes = <<27>>

\* C19, amended: the stage-2 command is the 5 bytes 1C 10 27 00 00 (the
\* template 00 10 27 00 00 with its first byte set to the opcode), and it is
\* written only after the 1-byte stage-1 command 1B.
C19_Stage2Bytes ==
    \A j \in Writes(28) :
        /\ wire[j].bytes = <<28, 16, 39, 0, 0>>
        /\ \E i \in Writes(27) : i < j /\ wire[i].bytes = <<27>>

\* C19's case: the handshake has written its stage-2 command and returned.
C19_Witness ==
    /\ dpc = "handshake_done"
    /\ Writes(28) # {}
    /\ Len(wire) = 4

----------------------------------------------------------------------------
(* Further claims about uwatec_smart_extract_dives (SpecExtract).          *)

\* the positions 0..size-4 at which the marker occurs in the buffer
MarkerPositions ==
    {p \in 0..(Len(xdata) - 4) : \A k \in 0..3 : xdata[p + k + 1] = header[k + 1]}

\* the next marker position above p, or the buffer size when there is none
NextMarkerOrEnd(p) ==
    LET above == {q \in MarkerPositions : q > p}
    IN  IF above = {} THEN Len(xdata)
        ELSE CHOOSE q \in above : \A r \in above : q <= r

\* each marker has its length field inside the buffer, and the field is at
\* most the distance to the next marker (to the buffer end for the last one)
LengthsFit ==
    \A p \in MarkerPositions :
        LET len == LenAt(xdata, xbeyond, p)
        IN  p + 8 <= Len(xdata) /\ len.hi = 0 /\ len.lo <= NextMarkerOrEnd(p) - p

\* the run is over, was given a consumer, and the consumer never said "stop"
AlwaysContinued ==
    /\ xpc = "done"
    /\ xdev # "other"
    /\ xcb
    /\ \A i \in 1..Len(xcalls) : xcalls[i].answer = "continue"

\* C13: for a buffer whose markers (at any of the positions 0..size-4) have
\* length fields that fit, a run with an always-continue consumer makes one
\* consumer call per marker, in strictly decreasing order of position, each
\* with the marker's length field as len and buffer[p+8 .. p+12) as
\* fingerprint, and returns success.
\* For a marker above size-12 the fingerprint handed over is not a slice of
\* the buffer but memory behind it, and this fails.
C13_OneCallPerMarker ==
    (AlwaysContinued /\ LengthsFit) =>
        /\ xstatus = DC_STATUS_SUCCESS
        /\ Len(xcalls) = Cardinality(MarkerPositions)
        /\ \A i \in 1..Len(xcalls) :
            /\ xcalls[i].start \in MarkerPositions
            /\ i > 1 => xcalls[i].start < xcalls[i - 1].start
            /\ xcalls[i].len = LenAt(xdata, xbeyond, xcalls[i].start)
            /\ xcalls[i].start + 12 <= Len(xdata)
            /\ xcalls[i].fingerprint =
                   SubSeq(xdata, xcalls[i].start + 9, xcalls[i].start + 12)

\* C20: extract_dives reads no byte at an index >= size and hands none to
\* the consumer; a marker whose length field or fingerprint would reach
\* beyond the buffer end makes the run return DataFormatError, without a
\* consumer call for it.
\* Neither memcmp's match nor the length check looks at size, and this fails.
C20_NoReadPastSize ==
    /\ ~xoob
    /\ \A i \in 1..Len(xcalls) : xcalls[i].start + 12 <= Len(xdata)
    /\ (xpc = "done" /\ xdev # "other"
            /\ \E p \in MarkerPositions : p + 12 > Len(xdata)) =>
           (xstatus = DC_STATUS_DATAFORMAT /\ xcalls = <<>>)

----------------------------------------------------------------------------
(* Further claims about suunto_solution_parser_samples_foreach             *)
(* (SpecParser).                                                           *)

\* the number of Time samples among the samples
TimeCount(samples) ==
    Cardinality({i \in 1..Len(samples) : samples[i].type = "DC_SAMPLE_TIME"})

\* C17: every iteration over a coded byte outside the event range delivers
\* a Time sample and, right behind it, a Depth sample, also when the run
\* ends in DataFormatError; the k-th Time sample carries 180 * k seconds;
\* every iteration over a byte of the event range 0x7E..0x82 (the terminal
\* 0x80 ends the loop) delivers one Event sample and nothing else and
\* leaves the running time and depth as they are.
\* An overflow code at the record's end delivers its Time sample and
\* returns DataFormatError before the Depth sample, and this fails.
C17_TimeDepthPairs ==
    [][(InLoop /\ pcb) =>
          LET value == pdata[poffset + 1]
              n == Len(psamples)
          IN  IF value >= 126 /\ value <= 130
              THEN /\ Len(psamples') = n + 1
                   /\ SubSeq(psamples', 1, n) = psamples
                   /\ psamples'[n + 1].type = "DC_SAMPLE_EVENT"
                   /\ ptime' = ptime
                   /\ pdepth' = pdepth
              ELSE /\ Len(psamples') = n + 2
                   /\ SubSeq(psamples', 1, n) = psamples
                   /\ psamples'[n + 1].type = "DC_SAMPLE_TIME"
                   /\ psamples'[n + 1].value = U32(180 * (TimeCount(psamples) + 1))
                   /\ psamples'[n + 2].type = "DC_SAMPLE_DEPTH"]_vars

----------------------------------------------------------------------------
(* Claims about suunto_solution_parser_get_field (SpecFields).             *)

\* the offset at which the coded samples of a record end: that of the first
\* 0x80 that is no continuation byte of an overflow pair, or the record's
\* size (or more) when there is none
RECURSIVE EndOfSamples(_, _)
EndOfSamples(data, offset) ==
    IF offset >= Len(data) THEN offset
    ELSE IF data[offset + 1] = 128 THEN offset
    ELSE IF IsOverflowByte(data[offset + 1]) THEN EndOfSamples(data, offset + 2)
    ELSE EndOfSamples(data, offset + 1)

\* the Depth samples a record decodes to
DepthSamplesOf(data) ==
    LET s == DecodedSamples(data)
    IN  {i \in 1..Len(s) : s[i].type = "DC_SAMPLE_DEPTH"}

\* C14: whatever set_data and get_field calls were made before, a successful
\* get_field for the dive time stores (n * 3 + t) * 60 for the record most
\* recently set, n the number of depth samples before the terminal 0x80 (an
\* overflow pair counts once, an event byte not at all) and t the byte
\* behind the terminal: so repeated queries give the same value, and
\* set_data leaves the cache empty.
C14_DiveTime ==
    /\ (fcall = "get_field" /\ ftype = "DC_FIELD_DIVETIME"
            /\ fstatus = DC_STATUS_SUCCESS /\ fvalue # <<>>) =>
           LET marker == EndOfSamples(fdata, 3)
               n == Cardinality(DepthSamplesOf(fdata))
           IN  /\ marker + 1 < Len(fdata)
               /\ fdata[marker + 1] = 128
               /\ fvalue = << [divetime |-> U32((n * 3 + fdata[marker + 2]) * 60)] >>
    /\ fcall = "set_data" => ~fcached

\* C14's case: the dive time of the record 7D 03 80 03 (an overflow pair,
\* the terminal, t = 3) was asked for, from a cache filled before, and given
\* as (1 * 3 + 3) * 60.
C14_Witness ==
    /\ fcall = "get_field"
    /\ ftype = "DC_FIELD_DIVETIME"
    /\ fstatus = DC_STATUS_SUCCESS
    /\ fdata = <<0, 0, 0, 125, 3, 128, 3>>
    /\ fdive = fdata
    /\ fvalue = << [divetime |-> U32(360)] >>

\* the value of a 32-bit accumulator read as a signed (two's complement) number
Signed32(u) ==
    IF Small32(u) THEN Nat32(u)
    ELSE -((Limb - 1 - u.hi) * Limb + (Limb - 1 - u.lo)) - 1

\* the largest of a set of integers
MaxOf(S) == CHOOSE m \in S : \A v \in S : v <= m

\* the maximum, over the prefixes of the decoded stream, of the signed
\* running depth (0 for the empty prefix)
SignedMaxDepth(data) ==
    LET s == DecodedSamples(data)
    IN  MaxOf({0} \cup {Signed32(s[i].value) : i \in DepthSamplesOf(data)})

\* C18: the max depth get_field caches for a record it accepts is the
\* maximum, over the prefixes of the decoded stream, of the signed running
\* sum of the depth deltas (starting at 0).
\* The running depth is an unsigned number: once it goes below zero it
\* compares as larger than every depth, and this fails.
C18_MaxDepth ==
    fcached => fmaxdepth = U32(SignedMaxDepth(fdata))

----------------------------------------------------------------------------
(* A claim about get_field and samples_foreach on one record (SpecBoth).   *)

\* samples_foreach has returned, and the last call on the parser was a
\* get_field on the same record
BothReturned == ppc = "done" /\ fcall = "get_field" /\ fdata = pdata

\* the number of Depth samples delivered
DepthCount(samples) ==
    Cardinality({i \in 1..Len(samples) : samples[i].type = "DC_SAMPLE_DEPTH"})

\* C21: on one record, get_field (filling its cache from that record) and
\* samples_foreach agree: one returns DataFormatError exactly when the other
\* does, and when both accept the record the number of Depth samples
\* delivered is the sample count in the cached dive time.
\* get_field wants a byte behind the terminal 0x80 and samples_foreach does
\* not (and it may find its terminal behind the record), and this fails.
C21_Agreement ==
    BothReturned =>
        /\ (pstatus = DC_STATUS_DATAFORMAT) <=> (fstatus = DC_STATUS_DATAFORMAT)
        /\ (pstatus = DC_STATUS_SUCCESS /\ fstatus # DC_STATUS_DATAFORMAT) =>
               fdivetime =
                   U32((DepthCount(psamples) * 3 + fdata[EndOfSamples(fdata, 3) + 2]) * 60)

====
